---- MODULE Spec2Model ----
(***************************************************************************)
(* A model of grailbio/doppelmark's coverage calculator, high-coverage     *)
(* interval extraction, metrics collection and option validation.          *)
(*                                                                         *)
(* The module holds several specifications over one set of variables; the  *)
(* variables a specification does not use stay at their idle value.        *)
(***************************************************************************)
EXTENDS Integers, Sequences, FiniteSets, TLC

VARIABLES
    pc,                 \* position of the sequential caller
    \* coverage calculator and interval extraction (highcoverage.go)
    shard,              \* the bam.Shard handed to Process
    rec,                \* the sam.Record handed to Process
    covBefore,          \* *m.coverageCounts before the call
    coverageCounts,     \* *m.coverageCounts, refId -> position -> depth
    procErr,            \* what Process returned
    maxCoverage,        \* argument of getHighCoverageIntervals
    highCovIntervals,   \* result of getHighCoverageIntervals
    highCovMap,         \* result of getCoverageMap
    found,              \* what recOrMateInHighCovInterval reported
    shards,             \* the shards of pass 1, in coordinate order
    recs,               \* the records read so far
    pending,            \* the Process calls to come, <<shard index, record index>>
    \* metrics collections
    mc,                 \* the MetricsCollection that is the receiver
    other,              \* the MetricsCollection handed to Merge
    mcBefore,           \* mc before the call
    otherBefore,        \* other before the call
    \* AddDistance calls on the optical-distance histogram
    lastBagSize,        \* the bagSize of the last AddDistance
    lastDistance,       \* the distance of the last AddDistance
    numCalls,           \* the number of calls made on the collections
    panicked,           \* whether a call indexed a bucket out of range
    \* duplicate keys and their orientation (duplicate_key.go)
    leftReversed,       \* whether the left read is reverse
    rightReversed,      \* whether the right read is reverse
    key,                \* the duplicateKey built
    single,             \* what key.isSingle() returned
    leftOr,             \* what leftOrientation(key.Orientation) returned
    rightOr,            \* what rightOrientation(key.Orientation) returned
    fatal,              \* whether log.Fatal was called
    \* shard workers merging into the global collection
    local,              \* worker -> its shard-local MetricsCollection
    snap,               \* worker -> the fields of mc its Merge has loaded
    pcW,                \* worker -> its position
    mutex,              \* mc.mutex: the worker holding it, or NoHolder
    \* the high-coverage intervals file, written after two accumulation orders
    pool,               \* the accumulation calls made, by index
    applied,            \* the indices of the calls made on mc, in order
    mcB,                \* a second collection, accumulating in index order
    appliedB,           \* the number of calls made on mcB
    rows,               \* the rows written from mc
    rowsB,              \* the rows written from mcB
    \* Metrics.String
    metrics,            \* the receiver *Metrics
    libArgs,            \* the arguments estimateLibrarySize was called with
    estimate,           \* what estimateLibrarySize returned
    row,                \* the fields of the string returned
    errLogged,          \* whether log.Error.Printf was called
    \* validate
    opts,               \* *Opts
    optsBefore,         \* *Opts before the call
    err                 \* what validate returned

NoValue == "none"

covVars == <<shard, rec, covBefore, coverageCounts, procErr, maxCoverage,
             highCovIntervals, highCovMap, found, shards, recs, pending>>
mergeVars == <<mc, other, mcBefore, otherBefore>>
workerVars == <<local, snap, pcW, mutex>>
fileVars == <<pool, applied, mcB, appliedB, rows, rowsB>>
stringVars == <<metrics, libArgs, estimate, row, errLogged>>
validateVars == <<opts, optsBefore, err>>
histVars == <<lastBagSize, lastDistance, numCalls, panicked>>
keyVars == <<leftReversed, rightReversed, key, single, leftOr, rightOr, fatal>>

vars == <<pc, covVars, mergeVars, workerVars, fileVars, stringVars, validateVars,
          histVars, keyVars>>

\* the variables a specification does not use
CovIdle ==
    /\ shard = NoValue /\ rec = NoValue /\ covBefore = NoValue
    /\ coverageCounts = NoValue /\ procErr = NoValue /\ maxCoverage = NoValue
    /\ highCovIntervals = NoValue /\ highCovMap = NoValue /\ found = NoValue
    /\ shards = NoValue /\ recs = NoValue /\ pending = NoValue
MergeIdle == mc = NoValue /\ other = NoValue /\ mcBefore = NoValue /\ otherBefore = NoValue
WorkerIdle == local = NoValue /\ snap = NoValue /\ pcW = NoValue /\ mutex = NoValue
FileIdle ==
    /\ pool = NoValue /\ applied = NoValue /\ mcB = NoValue /\ appliedB = NoValue
    /\ rows = NoValue /\ rowsB = NoValue
StringIdle ==
    /\ metrics = NoValue /\ libArgs = NoValue /\ estimate = NoValue
    /\ row = NoValue /\ errLogged = NoValue
ValidateIdle == opts = NoValue /\ optsBefore = NoValue /\ err = NoValue
HistIdle ==
    /\ lastBagSize = NoValue /\ lastDistance = NoValue /\ numCalls = NoValue
    /\ panicked = NoValue
KeyIdle ==
    /\ leftReversed = NoValue /\ rightReversed = NoValue /\ key = NoValue
    /\ single = NoValue /\ leftOr = NoValue /\ rightOr = NoValue /\ fatal = NoValue

-----------------------------------------------------------------------------
(* Bounds *)

\* length of the longest reference
MaxRefLen == 3
\* largest per-base depth drawn for a coverage array
MaxDepth == 2

(* The header of the tests: two references. *)
NumRefs == 2

-----------------------------------------------------------------------------
(* References, shards and records *)

Refs == 0 .. NumRefs - 1

\* sam.Reference.Len(): reference 0 is the longest, each next one a base shorter
RefLen(ref) == MaxRefLen - ref

Max(a, b) == IF a >= b THEN a ELSE b
Min(a, b) == IF a <= b THEN a ELSE b

\* biopb.Coord ordering on (refId, pos); seq is 0 everywhere Process builds one
CoordLT(r1, p1, r2, p2) == r1 < r2 \/ (r1 = r2 /\ p1 < p2)
CoordGE(r1, p1, r2, p2) == ~CoordLT(r1, p1, r2, p2)

\* bam.Shard: [StartRef, Start, EndRef, End), a non-empty coordinate range
Shards ==
    { s \in [StartRef : Refs, Start : 0 .. MaxRefLen, EndRef : Refs, End : 0 .. MaxRefLen] :
        /\ s.Start <= RefLen(s.StartRef)
        /\ s.End <= RefLen(s.EndRef)
        /\ CoordLT(s.StartRef, s.Start, s.EndRef, s.End) }

\* bam.Shard.PadStart / PadEnd
PadStart(s, padding) == Max(0, s.Start - padding)
PadEnd(s, padding) == Min(RefLen(s.EndRef), s.End + padding)

\* bam.Shard.CoordInShard(padding, NewCoord(ref, pos, 0))
CoordInShard(s, padding, ref, pos) ==
    /\ CoordGE(ref, pos, s.StartRef, PadStart(s, padding))
    /\ CoordLT(ref, pos, s.EndRef, PadEnd(s, padding))

\* sam.CigarOpType.Consumes().Reference
ConsumesReference(t) == IF t \in {"M", "D"} THEN 1 ELSE 0

CigarOp(t, n) == [type |-> t, len |-> n]

\* the CIGAR strings records are drawn with; <<>> is an unmapped record's
Cigars ==
    { <<>>,
      <<CigarOp("M", 1)>>,
      <<CigarOp("M", 2)>>,
      <<CigarOp("M", 3)>>,
      <<CigarOp("S", 1), CigarOp("M", 2)>>,
      <<CigarOp("M", 1), CigarOp("I", 1), CigarOp("M", 1)>>,
      <<CigarOp("M", 1), CigarOp("D", 1), CigarOp("M", 2)>>,
      <<CigarOp("I", 2)>> }

Records ==
    { r \in [Ref : Refs, Pos : 0 .. MaxRefLen - 1, Cigar : Cigars] :
        r.Pos < RefLen(r.Ref) }

RECURSIVE RefSpan(_, _)
\* the reference bases the first k operations of a CIGAR consume
RefSpan(cigar, k) ==
    IF k = 0 THEN 0
    ELSE RefSpan(cigar, k - 1) + cigar[k].len * ConsumesReference(cigar[k].type)

\* sam.Record.Start / End / Len
RecStart(r) == r.Pos
RecEnd(r) == r.Pos + RefSpan(r.Cigar, Len(r.Cigar))
RecLen(r) == RecEnd(r) - RecStart(r)

-----------------------------------------------------------------------------
(* coverageCalculator.Process *)

RECURSIVE PreShardLoop(_, _, _)
\* highcoverage.go:25-32, the loop from p on: bases that precede the shard
PreShardLoop(s, r, p) ==
    IF p < RecEnd(r) /\ ~CoordInShard(s, 0, r.Ref, p)
    THEN 1 + PreShardLoop(s, r, p + 1)
    ELSE 0

BasesPreShard(s, r) == PreShardLoop(s, r, RecStart(r))

RECURSIVE PostShardLoop(_, _, _)
\* highcoverage.go:40-46, the loop from p down: bases taken off basesInShard
PostShardLoop(s, r, p) ==
    IF p >= RecStart(r) /\ ~CoordInShard(s, 0, r.Ref, p)
    THEN 1 + PostShardLoop(s, r, p - 1)
    ELSE 0

\* highcoverage.go:38-46: basesInShard starts at r.Len() and loses the
\* trailing bases outside the shard (the leading ones are not taken off)
BasesInShard(s, r) == RecLen(r) - PostShardLoop(s, r, RecEnd(r) - 1)

Incr(counts, ref, p) == [counts EXCEPT ![ref][p] = @ + 1]

RECURSIVE CigarLoop(_, _, _, _, _, _)
\* highcoverage.go:50-62: operation k, inner index i, st = counted/offset/counts
CigarLoop(r, pre, inShard, k, i, st) ==
    IF k > Len(r.Cigar) THEN st.counts
    ELSE IF /\ ConsumesReference(r.Cigar[k].type) = 1
            /\ i < r.Cigar[k].len
            /\ st.counted < inShard
            /\ r.Pos + st.offset < RefLen(r.Ref)
         THEN CigarLoop(r, pre, inShard, k, i + 1,
                  IF st.offset >= pre
                  THEN [counted |-> st.counted + 1,
                        offset  |-> st.offset + 1,
                        counts  |-> Incr(st.counts, r.Ref, r.Pos + st.offset)]
                  ELSE [st EXCEPT !.offset = @ + 1])
         ELSE CigarLoop(r, pre, inShard, k + 1, 0, st)

\* the counters after Process(shard, r)
ProcessCounts(s, r, counts) ==
    IF BasesPreShard(s, r) >= RecLen(r) THEN counts
    ELSE CigarLoop(r, BasesPreShard(s, r), BasesInShard(s, r), 1, 0,
                   [counted |-> 0, offset |-> 0, counts |-> counts])

\* a coverage map with every base at depth d
FlatCoverage(d) == [ref \in Refs |-> [p \in 0 .. RefLen(ref) - 1 |-> d]]

InitProcess ==
    /\ shard \in Shards
    /\ rec = NoValue
    /\ covBefore = NoValue
    /\ coverageCounts \in { FlatCoverage(d) : d \in 0 .. MaxDepth }
    /\ procErr = NoValue
    /\ maxCoverage = NoValue
    /\ highCovIntervals = NoValue
    /\ highCovMap = NoValue /\ found = NoValue
    /\ shards = NoValue /\ recs = NoValue /\ pending = NoValue
    /\ pc = "process"
    /\ MergeIdle /\ WorkerIdle /\ FileIdle /\ StringIdle /\ ValidateIdle /\ HistIdle /\ KeyIdle

Process(r) ==
    /\ pc = "process"
    /\ rec' = r
    /\ covBefore' = coverageCounts
    /\ coverageCounts' = ProcessCounts(shard, r, coverageCounts)
    /\ procErr' = "nil"
    /\ pc' = "processed"
    /\ UNCHANGED <<shard, maxCoverage, highCovIntervals, highCovMap, found>>
    /\ UNCHANGED <<shards, recs, pending>>
    /\ UNCHANGED <<mergeVars, workerVars, fileVars, stringVars, validateVars, histVars, keyVars>>

NextProcess == \E r \in Records : Process(r)

SpecProcess == InitProcess /\ [][NextProcess]_vars

-----------------------------------------------------------------------------
(* C1 *)

\* position p of ref is one Process(shard, rec) has to count
OwnedByCall(ref, p) ==
    /\ ref = rec.Ref
    /\ RecStart(rec) <= p /\ p < RecEnd(rec)
    /\ p < RefLen(ref)
    /\ CoordInShard(shard, 0, ref, p)

\* C1: Process(shard, r) adds exactly 1 to the counter of every position on
\* r's reference that lies in [r.Start(), r.End()), is below the reference
\* length and is owned by the shard, leaves every other counter unchanged
\* and returns nil.
C1_ProcessClampedToShard ==
    pc = "processed" =>
        /\ procErr = "nil"
        /\ \A ref \in Refs : \A p \in 0 .. RefLen(ref) - 1 :
              coverageCounts[ref][p] =
                  covBefore[ref][p] + (IF OwnedByCall(ref, p) THEN 1 ELSE 0)

\* the same statement for the records that do not both start before the
\* shard and end after it
C1_ClampedUnlessStraddling ==
    (pc = "processed"
        /\ ~(BasesPreShard(shard, rec) > 0
             /\ PostShardLoop(shard, rec, RecEnd(rec) - 1) > 0)) =>
        \A ref \in Refs : \A p \in 0 .. RefLen(ref) - 1 :
            coverageCounts[ref][p] =
                covBefore[ref][p] + (IF OwnedByCall(ref, p) THEN 1 ELSE 0)

-----------------------------------------------------------------------------
(* getHighCoverageIntervals *)

RECURSIVE Gcd(_, _)
Gcd(a, b) == IF b = 0 THEN a ELSE Gcd(b, a % b)

\* float64(total) / float64(n) for n > 0, kept as the fraction in lowest
\* terms: two quotients are the same float64 exactly when the fractions agree
Quotient(total, n) ==
    [num |-> total \div Gcd(total, n), den |-> n \div Gcd(total, n)]

\* coverageInterval
CoverageInterval(refId, start, end, mean) ==
    [refId |-> refId, start |-> start, end |-> end, meanCoverage |-> mean]

\* highcoverage.go:79-82 without the reset of total
PosOpenKeepTotal(refCoverage, pos, st, maxCov) ==
    IF refCoverage[pos] > maxCov
       /\ (pos = 0 \/ (pos > 0 /\ refCoverage[pos - 1] <= maxCov))
    THEN [st EXCEPT !.start = pos]
    ELSE st

\* highcoverage.go:77-82: a run opens at pos
PosOpen(refCoverage, pos, st, maxCov) ==
    IF refCoverage[pos] > maxCov
       /\ (pos = 0 \/ (pos > 0 /\ refCoverage[pos - 1] <= maxCov))
    THEN [st EXCEPT !.start = pos, !.total = 0]
    ELSE st

\* highcoverage.go:83: the depth at pos joins the run's total
PosAdd(refCoverage, pos, st, maxCov) ==
    IF refCoverage[pos] > maxCov
    THEN [st EXCEPT !.total = @ + refCoverage[pos]]
    ELSE st

\* highcoverage.go:84-94: the run ends with the reference
PosCloseAtEnd(refId, refCoverage, n, pos, st, maxCov) ==
    IF refCoverage[pos] > maxCov /\ pos = n - 1
    THEN [st EXCEPT !.end = pos + 1,
                    !.out = Append(@, CoverageInterval(refId, st.start, pos + 1,
                                        Quotient(st.total, pos + 1 - st.start)))]
    ELSE st

\* highcoverage.go:96-108: the run ended at the previous position
PosCloseBefore(refId, refCoverage, pos, st, maxCov) ==
    IF refCoverage[pos] <= maxCov /\ pos > 0 /\ refCoverage[pos - 1] > maxCov
    THEN [st EXCEPT !.end = pos,
                    !.out = Append(@, CoverageInterval(refId, st.start, pos,
                                        Quotient(st.total, pos - st.start)))]
    ELSE st

\* highcoverage.go:76-109: one iteration of the position loop
PosStep(refId, refCoverage, n, pos, st, maxCov) ==
    PosCloseBefore(refId, refCoverage, pos,
        PosCloseAtEnd(refId, refCoverage, n, pos,
            PosAdd(refCoverage, pos,
                PosOpen(refCoverage, pos, st, maxCov), maxCov), maxCov), maxCov)

RECURSIVE PosLoop(_, _, _, _, _, _)
PosLoop(refId, refCoverage, n, pos, st, maxCov) ==
    IF pos >= n THEN st.out
    ELSE PosLoop(refId, refCoverage, n, pos + 1,
                 PosStep(refId, refCoverage, n, pos, st, maxCov), maxCov)

RECURSIVE RefLoop(_, _, _, _)
\* highcoverage.go:73-110: start, end and total are fresh for each refId
RefLoop(coverage, refId, out, maxCov) ==
    IF refId >= Cardinality(DOMAIN coverage) THEN out
    ELSE RefLoop(coverage, refId + 1,
                 PosLoop(refId, coverage[refId],
                         Cardinality(DOMAIN coverage[refId]), 0,
                         [start |-> 0, end |-> 0, total |-> 0, out |-> out],
                         maxCov),
                 maxCov)

GetHighCoverageIntervals(coverage, maxCov) == RefLoop(coverage, 0, <<>>, maxCov)

\* every coverage map over the references with depths 0 .. MaxDepth
CoverageMaps ==
    { c \in [Refs -> UNION { [0 .. RefLen(ref) - 1 -> 0 .. MaxDepth] : ref \in Refs }] :
        \A ref \in Refs : DOMAIN c[ref] = 0 .. RefLen(ref) - 1 }

InitIntervals ==
    /\ shard = NoValue
    /\ rec = NoValue
    /\ covBefore = NoValue
    /\ coverageCounts \in CoverageMaps
    /\ procErr = NoValue
    /\ maxCoverage \in -1 .. MaxDepth
    /\ highCovIntervals = NoValue
    /\ highCovMap = NoValue /\ found = NoValue
    /\ shards = NoValue /\ recs = NoValue /\ pending = NoValue
    /\ pc = "scan"
    /\ MergeIdle /\ WorkerIdle /\ FileIdle /\ StringIdle /\ ValidateIdle /\ HistIdle /\ KeyIdle

ScanCoverage ==
    /\ pc = "scan"
    /\ highCovIntervals' = GetHighCoverageIntervals(coverageCounts, maxCoverage)
    /\ pc' = "scanned"
    /\ UNCHANGED <<shard, rec, covBefore, coverageCounts, procErr, maxCoverage,
                   highCovMap, found>>
    /\ UNCHANGED <<shards, recs, pending>>
    /\ UNCHANGED <<mergeVars, workerVars, fileVars, stringVars, validateVars, histVars, keyVars>>

NextIntervals == ScanCoverage

SpecIntervals == InitIntervals /\ [][NextIntervals]_vars

-----------------------------------------------------------------------------
(* C2 *)

RECURSIVE DepthSum(_, _, _)
\* the sum of the depths over [from, to)
DepthSum(refCoverage, from, to) ==
    IF from >= to THEN 0
    ELSE refCoverage[from] + DepthSum(refCoverage, from + 1, to)

IsHigh(ref, p) == coverageCounts[ref][p] > maxCoverage

\* iv is a maximal run of high positions with the right mean
IsMaximalRun(iv) ==
    /\ iv.refId \in Refs
    /\ 0 <= iv.start /\ iv.start < iv.end /\ iv.end <= RefLen(iv.refId)
    /\ \A p \in iv.start .. iv.end - 1 : IsHigh(iv.refId, p)
    /\ iv.start > 0 => ~IsHigh(iv.refId, iv.start - 1)
    /\ iv.end < RefLen(iv.refId) => ~IsHigh(iv.refId, iv.end)
    /\ iv.meanCoverage.num * (iv.end - iv.start)
         = DepthSum(coverageCounts[iv.refId], iv.start, iv.end) * iv.meanCoverage.den
    /\ iv.meanCoverage.den > 0

\* C2: getHighCoverageIntervals returns, in ascending (refId, start) order,
\* exactly one interval per maximal run of positions with depth > maxCoverage:
\* half-open, bounded by positions of depth <= maxCoverage (or the reference's
\* ends), covering every high position, with meanCoverage the mean depth.
C2_MaximalRuns ==
    pc = "scanned" =>
        /\ \A i \in 1 .. Len(highCovIntervals) : IsMaximalRun(highCovIntervals[i])
        /\ \A i \in 1 .. Len(highCovIntervals) - 1 :
              CoordLT(highCovIntervals[i].refId, highCovIntervals[i].start,
                      highCovIntervals[i + 1].refId, highCovIntervals[i + 1].start)
        /\ \A ref \in Refs : \A p \in 0 .. RefLen(ref) - 1 :
              IsHigh(ref, p) =>
                  \E i \in 1 .. Len(highCovIntervals) :
                      /\ highCovIntervals[i].refId = ref
                      /\ highCovIntervals[i].start <= p
                      /\ p < highCovIntervals[i].end

\* a scan that found a run from position 0, a run up to the last position of
\* a reference, two runs on one reference and a mean that is no integer
C2_Witness ==
    /\ pc = "scanned"
    /\ \E i, j \in 1 .. Len(highCovIntervals) :
          /\ i < j
          /\ highCovIntervals[i].refId = highCovIntervals[j].refId
          /\ highCovIntervals[i].start = 0
          /\ highCovIntervals[j].end = RefLen(highCovIntervals[j].refId)
    /\ \E i \in 1 .. Len(highCovIntervals) :
          /\ highCovIntervals[i].meanCoverage.den > 1
          /\ highCovIntervals[i].end = RefLen(highCovIntervals[i].refId)

-----------------------------------------------------------------------------
(* Metrics and MetricsCollection *)

\* largest optical distance handed to AddDistance
MaxDistance == 2
\* length of each histogram bucket of a new collection (60000 in the code)
NewHistLen == 1
\* number of bag-size buckets of the optical-distance histogram
NumBuckets == 4

Libraries == {"libA", "libB"}

Counters ==
    {"UnpairedReads", "ReadPairsExamined", "SecondarySupplementary",
     "UnmappedReads", "UnpairedDups", "ReadPairDups", "ReadPairOpticalDups"}

\* Metrics{...}
Metrics(ur, rpe, ss, um, ud, rpd, rpod) ==
    [UnpairedReads |-> ur, ReadPairsExamined |-> rpe,
     SecondarySupplementary |-> ss, UnmappedReads |-> um,
     UnpairedDups |-> ud, ReadPairDups |-> rpd, ReadPairOpticalDups |-> rpod]

\* Metrics.Add with the last counter left out
MetricsAddDropsOptical(m, o) ==
    [UnpairedReads          |-> m.UnpairedReads + o.UnpairedReads,
     ReadPairsExamined      |-> m.ReadPairsExamined + o.ReadPairsExamined,
     SecondarySupplementary |-> m.SecondarySupplementary + o.SecondarySupplementary,
     UnmappedReads          |-> m.UnmappedReads + o.UnmappedReads,
     UnpairedDups           |-> m.UnpairedDups + o.UnpairedDups,
     ReadPairDups           |-> m.ReadPairDups + o.ReadPairDups,
     ReadPairOpticalDups    |-> m.ReadPairOpticalDups]

\* Metrics.Add
MetricsAdd(m, o) ==
    [UnpairedReads          |-> m.UnpairedReads + o.UnpairedReads,
     ReadPairsExamined      |-> m.ReadPairsExamined + o.ReadPairsExamined,
     SecondarySupplementary |-> m.SecondarySupplementary + o.SecondarySupplementary,
     UnmappedReads          |-> m.UnmappedReads + o.UnmappedReads,
     UnpairedDups           |-> m.UnpairedDups + o.UnpairedDups,
     ReadPairDups           |-> m.ReadPairDups + o.ReadPairDups,
     ReadPairOpticalDups    |-> m.ReadPairOpticalDups + o.ReadPairOpticalDups]

\* make([]int64, n)
MakeZeros(n) == [k \in 1 .. n |-> 0]

\* newMetricsCollection; bucket i of the code is OpticalDistance[i + 1], and
\* the count for distance j is at index j + 1 of the bucket
NewMetricsCollection ==
    [LibraryMetrics        |-> <<>>,
     OpticalDistance       |-> [i \in 1 .. NumBuckets |-> MakeZeros(NewHistLen)],
     HighCoverageIntervals |-> <<>>]

\* part_001:141-150: the per-library loop of Merge
MergeLibraryMetrics(mine, theirs) ==
    [lib \in DOMAIN mine \cup DOMAIN theirs |->
        IF lib \in DOMAIN theirs
        THEN IF lib \in DOMAIN mine
             THEN MetricsAdd(mine[lib], theirs[lib])
             ELSE theirs[lib]
        ELSE mine[lib]]

\* copy(temp, src): the first min(len(temp), len(src)) elements
Copy(temp, src) ==
    [k \in 1 .. Len(temp) |-> IF k <= Len(src) THEN src[k] ELSE temp[k]]

\* part_001:153-157 with the copy left out
GrowBucketNoCopy(mine, n) ==
    IF Len(mine) < n THEN MakeZeros(n) ELSE mine

\* part_001:153-157: the bucket, at least n long
GrowBucket(mine, n) ==
    IF Len(mine) < n THEN Copy(MakeZeros(n), mine) ELSE mine

\* part_001:158-160: theirs added element-wise
AddBucket(mine, theirs) ==
    [k \in 1 .. Len(mine) |-> IF k <= Len(theirs) THEN mine[k] + theirs[k] ELSE mine[k]]

\* part_001:152-161: the histogram loop of Merge
MergeOpticalDistance(mine, theirs) ==
    [i \in 1 .. Len(mine) |-> AddBucket(GrowBucket(mine[i], Len(theirs[i])), theirs[i])]

\* the fields of the receiver after Merge(o), computed from the fields loaded
MergeResult(loaded, o) ==
    [LibraryMetrics        |-> MergeLibraryMetrics(loaded.LibraryMetrics, o.LibraryMetrics),
     OpticalDistance       |-> MergeOpticalDistance(loaded.OpticalDistance, o.OpticalDistance),
     HighCoverageIntervals |-> loaded.HighCoverageIntervals \o o.HighCoverageIntervals]

\* AddHighCovInterval
AddHighCovIntervalResult(c, interval) ==
    [c EXCEPT !.HighCoverageIntervals = Append(@, interval)]

\* part_001:181-189 with bag size 3 counted in the first bucket
BucketOfThreeInFirst(bagSize) ==
    IF bagSize <= 3 THEN 1
    ELSE IF bagSize >= 4 /\ bagSize <= 4 THEN 2
    ELSE IF bagSize >= 5 /\ bagSize <= 7 THEN 3
    ELSE 4

\* part_001:181-189: the bucket of a bag size
BucketOf(bagSize) ==
    IF bagSize <= 2 THEN 1
    ELSE IF bagSize >= 3 /\ bagSize <= 4 THEN 2
    ELSE IF bagSize >= 5 /\ bagSize <= 7 THEN 3
    ELSE 4

\* part_001:173-179 with only the bucket inspected regrown
GrowFirstBucketOnly(od, distance) ==
    IF distance >= Len(od[1])
    THEN [i \in 1 .. Len(od) |->
            IF i = 1 THEN Copy(MakeZeros(distance + 1), od[i]) ELSE od[i]]
    ELSE od

\* part_001:173-179: every bucket regrown when distance is past bucket 0
GrowForDistance(od, distance) ==
    IF distance >= Len(od[1])
    THEN [i \in 1 .. Len(od) |-> Copy(MakeZeros(distance + 1), od[i])]
    ELSE od

\* AddDistance
AddDistanceResult(c, bagSize, distance) ==
    [c EXCEPT !.OpticalDistance =
        [GrowForDistance(@, distance) EXCEPT ![BucketOf(bagSize)][distance + 1] = @ + 1]]

\* one bag size for each bucket
BagSizes == {2, 3, 7, 8}

\* the per-library metrics of scenarios S1 and S2 and of a second shard
SomeMetrics == {Metrics(2, 4, 1, 1, 1, 2, 2), Metrics(1, 2, 0, 3, 0, 2, 0)}

LibraryMaps ==
    UNION { [libs -> SomeMetrics] : libs \in SUBSET Libraries }

\* a few high-coverage intervals, two of them over the same range
SomeIntervals ==
    { CoverageInterval(0, 0, 1, Quotient(2, 1)),
      CoverageInterval(0, 0, 1, Quotient(3, 1)),
      CoverageInterval(0, 1, 3, Quotient(5, 2)),
      CoverageInterval(0, 1, 2, Quotient(4, 1)),
      CoverageInterval(1, 0, 2, Quotient(3, 1)) }

\* collections a shard can hold: per-library counters, distances added,
\* intervals added
SomeCollections ==
    { [NewMetricsCollection EXCEPT !.LibraryMetrics = lm] : lm \in LibraryMaps }
    \cup { AddDistanceResult(NewMetricsCollection, b, d) :
             b \in BagSizes, d \in 0 .. MaxDistance }
    \cup { AddDistanceResult(AddDistanceResult(NewMetricsCollection, b, d), b, e) :
             b \in BagSizes, d \in 0 .. MaxDistance, e \in 0 .. MaxDistance }
    \cup { AddDistanceResult(
             AddHighCovIntervalResult(
                [NewMetricsCollection EXCEPT !.LibraryMetrics = lm], iv), 8, MaxDistance) :
             lm \in LibraryMaps, iv \in SomeIntervals }

InitMerge ==
    /\ mc \in SomeCollections
    /\ other \in SomeCollections
    /\ mcBefore = NoValue
    /\ otherBefore = NoValue
    /\ pc = "merge"
    /\ CovIdle /\ WorkerIdle /\ FileIdle /\ StringIdle /\ ValidateIdle /\ HistIdle /\ KeyIdle

\* mc.Merge(other) by a single caller
Merge ==
    /\ pc = "merge"
    /\ mcBefore' = mc
    /\ otherBefore' = other
    /\ mc' = MergeResult(mc, other)
    /\ other' = other
    /\ pc' = "merged"
    /\ UNCHANGED <<covVars, workerVars, fileVars, stringVars, validateVars, histVars, keyVars>>

NextMerge == Merge

SpecMerge == InitMerge /\ [][NextMerge]_vars

-----------------------------------------------------------------------------
(* C4 *)

\* counter c of library lib in a collection, 0 when the library is absent
CounterOf(c, lib, counter) ==
    IF lib \in DOMAIN c.LibraryMetrics THEN c.LibraryMetrics[lib][counter] ELSE 0

\* C4: after mc.Merge(other) each of the seven counters of every library of
\* mc or other is its value in mc before (0 if absent) plus its value in other
\* (0 if absent), mc holds no other library, and other is not modified.
C4_MergeSumsCounters ==
    pc = "merged" =>
        /\ DOMAIN mc.LibraryMetrics
             = DOMAIN mcBefore.LibraryMetrics \cup DOMAIN otherBefore.LibraryMetrics
        /\ \A lib \in DOMAIN mc.LibraryMetrics : \A counter \in Counters :
              mc.LibraryMetrics[lib][counter]
                 = CounterOf(mcBefore, lib, counter) + CounterOf(otherBefore, lib, counter)
        /\ other = otherBefore

\* a merge with a library on both sides, one only in mc and one only in other
C4_Witness ==
    /\ pc = "merged"
    /\ DOMAIN mcBefore.LibraryMetrics = {"libA"}
    /\ DOMAIN otherBefore.LibraryMetrics = {"libA"}
    /\ mcBefore.LibraryMetrics["libA"].ReadPairOpticalDups > 0
    /\ otherBefore.LibraryMetrics["libA"].ReadPairOpticalDups > 0

C4_WitnessDisjoint ==
    /\ pc = "merged"
    /\ DOMAIN mcBefore.LibraryMetrics = {"libA"}
    /\ DOMAIN otherBefore.LibraryMetrics = {"libB"}

-----------------------------------------------------------------------------
(* C5 *)

\* the count of bucket i at distance j, 0 past the bucket's end
CellOf(c, i, j) ==
    IF j + 1 <= Len(c.OpticalDistance[i]) THEN c.OpticalDistance[i][j + 1] ELSE 0

\* C5: after mc.Merge(other) each of the 4 buckets of mc is as long as the
\* longer of its previous self and other's bucket, and its count at every
\* distance is mc's previous count plus other's, 0 standing for a count past
\* the end.
C5_MergeSumsHistograms ==
    pc = "merged" =>
        /\ Len(mc.OpticalDistance) = NumBuckets
        /\ \A i \in 1 .. NumBuckets :
              /\ Len(mc.OpticalDistance[i])
                    = Max(Len(mcBefore.OpticalDistance[i]), Len(otherBefore.OpticalDistance[i]))
              /\ \A j \in 0 .. Len(mc.OpticalDistance[i]) - 1 :
                    CellOf(mc, i, j) = CellOf(mcBefore, i, j) + CellOf(otherBefore, i, j)

\* a merge that grew mc's buckets and summed two non-zero counts
C5_Witness ==
    /\ pc = "merged"
    /\ \E i \in 1 .. NumBuckets :
          /\ Len(mcBefore.OpticalDistance[i]) < Len(otherBefore.OpticalDistance[i])
          /\ \E j \in 0 .. Len(mcBefore.OpticalDistance[i]) - 1 :
                CellOf(mcBefore, i, j) > 0 /\ CellOf(otherBefore, i, j) > 0

-----------------------------------------------------------------------------
(* Shard workers merging their shard-local collections into the global one *)

\* number of shard workers that call Merge on the global collection
NumWorkers == 2

Workers == 1 .. NumWorkers

\* the zero value of sync.Mutex: no worker holds it
NoHolder == 0

\* the shard-local collections a worker may end its shard with
WorkerCollections ==
    { AddDistanceResult(
        [NewMetricsCollection EXCEPT !.LibraryMetrics = [lib \in {"libA"} |-> m]],
        b, d) : m \in SomeMetrics, b \in {2}, d \in {0, MaxDistance} }
    \cup { [NewMetricsCollection EXCEPT !.LibraryMetrics = [lib \in Libraries |-> m]] :
             m \in SomeMetrics }

InitWorkers ==
    /\ mc = NewMetricsCollection
    /\ other = NoValue /\ mcBefore = NoValue /\ otherBefore = NoValue
    /\ local \in [Workers -> WorkerCollections]
    /\ snap = [w \in Workers |-> NoValue]
    /\ pcW = [w \in Workers |-> "lock"]
    /\ mutex = NoHolder
    /\ pc = NoValue
    /\ CovIdle /\ FileIdle /\ StringIdle /\ ValidateIdle /\ HistIdle /\ KeyIdle

\* a Lock that does not wait for the holder
MutexNotChecked == TRUE

\* sync.Mutex.Lock returns only when no one holds the mutex
MutexFree == mutex = NoHolder

\* part_001:138: mc.mutex.Lock()
Lock(w) ==
    /\ pcW[w] = "lock"
    /\ MutexFree
    /\ mutex' = w
    /\ pcW' = [pcW EXCEPT ![w] = "load"]
    /\ UNCHANGED <<pc, mc, other, mcBefore, otherBefore, local, snap>>
    /\ UNCHANGED <<covVars, fileVars, stringVars, validateVars, histVars, keyVars>>

\* part_001:141-161: the loads of the body's read-modify-write statements
Load(w) ==
    /\ pcW[w] = "load"
    /\ snap' = [snap EXCEPT ![w] = mc]
    /\ pcW' = [pcW EXCEPT ![w] = "store"]
    /\ UNCHANGED <<pc, mc, other, mcBefore, otherBefore, local, mutex>>
    /\ UNCHANGED <<covVars, fileVars, stringVars, validateVars, histVars, keyVars>>

\* part_001:141-161: the stores of the body
Store(w) ==
    /\ pcW[w] = "store"
    /\ mc' = MergeResult(snap[w], local[w])
    /\ pcW' = [pcW EXCEPT ![w] = "unlock"]
    /\ UNCHANGED <<pc, other, mcBefore, otherBefore, local, snap, mutex>>
    /\ UNCHANGED <<covVars, fileVars, stringVars, validateVars, histVars, keyVars>>

\* part_001:139: the deferred mc.mutex.Unlock()
Unlock(w) ==
    /\ pcW[w] = "unlock"
    /\ mutex' = NoHolder
    /\ pcW' = [pcW EXCEPT ![w] = "done"]
    /\ UNCHANGED <<pc, mc, other, mcBefore, otherBefore, local, snap>>
    /\ UNCHANGED <<covVars, fileVars, stringVars, validateVars, histVars, keyVars>>

NextWorkers ==
    \E w \in Workers : Lock(w) \/ Load(w) \/ Store(w) \/ Unlock(w)

SpecWorkers == InitWorkers /\ [][NextWorkers]_vars

-----------------------------------------------------------------------------
(* C3 *)

\* worker w is inside the body of Merge
InMerge(w) == pcW[w] \in {"load", "store", "unlock"}

RECURSIVE CounterSum(_, _, _)
\* the sum of a library's counter over the shard-local collections 1 .. n
CounterSum(n, lib, counter) ==
    IF n = 0 THEN 0
    ELSE CounterSum(n - 1, lib, counter) + CounterOf(local[n], lib, counter)

RECURSIVE CellSum(_, _, _)
\* the sum of histogram cell (i, j) over the shard-local collections 1 .. n
CellSum(n, i, j) ==
    IF n = 0 THEN 0
    ELSE CellSum(n - 1, i, j) + CellOf(local[n], i, j)

AllMerged == \A w \in Workers : pcW[w] = "done"

\* C3: Merge calls of several workers on the global collection exclude each
\* other, and whatever the interleaving and completion order the final
\* per-library counters and histogram are the sums over the shard-local
\* collections.
C3_MergeExclusiveNoLostUpdate ==
    /\ \A v, w \in Workers : (InMerge(v) /\ InMerge(w)) => v = w
    /\ \A w \in Workers : InMerge(w) => mutex = w
    /\ AllMerged =>
          /\ DOMAIN mc.LibraryMetrics
                = UNION { DOMAIN local[w].LibraryMetrics : w \in Workers }
          /\ \A lib \in DOMAIN mc.LibraryMetrics : \A counter \in Counters :
                mc.LibraryMetrics[lib][counter] = CounterSum(NumWorkers, lib, counter)
          /\ \A i \in 1 .. NumBuckets :
                \A j \in 0 .. MaxDistance + NewHistLen :
                    CellOf(mc, i, j) = CellSum(NumWorkers, i, j)

\* every worker has merged, two of them into the same library and the same
\* histogram cell
C3_Witness ==
    /\ AllMerged
    /\ \E v, w \in Workers :
          /\ v # w
          /\ "libA" \in DOMAIN local[v].LibraryMetrics
          /\ "libA" \in DOMAIN local[w].LibraryMetrics
          /\ CellOf(local[v], 1, 0) > 0
          /\ CellOf(local[w], 1, 0) > 0
          /\ CellOf(mc, 1, 0) >= 2

-----------------------------------------------------------------------------
(* validate *)

\* largest shard size and padding drawn for Opts
MaxShardSize == 2

\* bamprovider.ParseFileType
ParseFileType(format) ==
    IF format = "bam" THEN "BAM"
    ELSE IF format = "pam" THEN "PAM"
    ELSE "Unknown"

\* the Opts validate is called with
OptsSet ==
    [BamFile      : {"", "in.bam"},
     IndexFile    : {"", "in.idx"},
     ShardSize    : -1 .. MaxShardSize,
     Padding      : -1 .. MaxShardSize,
     MinBases     : {0, 1},
     UmiFile      : {"", "umis.txt"},
     UseUmis      : BOOLEAN,
     ScavengeUmis : {-2, -1, 0, 1},
     Format       : {"bam", "pam", "cram"},
     OutputPath   : {"out.bam"}]

\* validate.go:32 with > for >=
PaddingReachesShardSizeStrict(o) == o.Padding > o.ShardSize

\* validate.go:32
PaddingReachesShardSize(o) == o.Padding >= o.ShardSize

\* validate.go:44,47 with 0 taken as disabled
ScavengeEnabledAboveZero(o) == o.ScavengeUmis > 0

\* validate.go:44,47
ScavengeEnabled(o) == o.ScavengeUmis > -1

NoError == "nil"

\* validate.go:23-37: the checks that precede the IndexFile default
EarlyError(o) ==
    IF o.BamFile = "" THEN "you must specify a bam file with --bam"
    ELSE IF o.ShardSize <= 0 THEN "shard-size must be non-zero"
    ELSE IF o.Padding < 0 THEN "padding must be non-negative"
    ELSE IF PaddingReachesShardSize(o) THEN "padding must be less than shard-size"
    ELSE IF o.MinBases <= 0 THEN "min-bases should be positive"
    ELSE NoError

\* validate.go:41-53: the checks that follow it
LateError(o) ==
    IF Len(o.UmiFile) > 0 /\ ~o.UseUmis THEN "umi-file is set, but use-umis is false"
    ELSE IF ScavengeEnabled(o) /\ ~o.UseUmis THEN "scavenge-umis is set, but use-umis is false"
    ELSE IF ScavengeEnabled(o) /\ o.UmiFile = "" THEN "scavenge-umis is set, but umi-file is empty"
    ELSE IF ParseFileType(o.Format) = "Unknown" THEN "unknown outputformat"
    ELSE NoError

\* the error validate returns
ValidateError(o) ==
    IF EarlyError(o) # NoError THEN EarlyError(o) ELSE LateError(o)

\* validate.go:38-40 moved before the checks of validate.go:23-37
ValidateOptsDefaultsFirst(o) ==
    IF o.IndexFile = ""
    THEN [o EXCEPT !.IndexFile = o.BamFile \o ".bai"]
    ELSE o

\* *opts after validate: validate.go:38-40
ValidateOpts(o) ==
    IF EarlyError(o) = NoError /\ o.IndexFile = ""
    THEN [o EXCEPT !.IndexFile = o.BamFile \o ".bai"]
    ELSE o

InitValidate ==
    /\ opts \in OptsSet
    /\ optsBefore = NoValue
    /\ err = NoValue
    /\ pc = "validate"
    /\ CovIdle /\ MergeIdle /\ WorkerIdle /\ FileIdle /\ StringIdle /\ HistIdle /\ KeyIdle

Validate ==
    /\ pc = "validate"
    /\ optsBefore' = opts
    /\ opts' = ValidateOpts(opts)
    /\ err' = ValidateError(opts)
    /\ pc' = "validated"
    /\ UNCHANGED <<covVars, mergeVars, workerVars, fileVars, stringVars, histVars, keyVars>>

NextValidate == Validate

SpecValidate == InitValidate /\ [][NextValidate]_vars

-----------------------------------------------------------------------------
(* C6 *)

\* the options other than shardSize and padding are valid
OtherThanShardValid(o) ==
    /\ o.BamFile # ""
    /\ o.MinBases > 0
    /\ ~(o.UmiFile # "" /\ ~o.UseUmis)
    /\ ~(o.ScavengeUmis > -1 /\ ~o.UseUmis)
    /\ ~(o.ScavengeUmis > -1 /\ o.UmiFile = "")
    /\ o.Format \in {"bam", "pam"}

\* C6: validate returns an error whenever shardSize <= 0, padding < 0 or
\* padding >= shardSize, whatever the other options, and returns nil when
\* 0 <= padding < shardSize and every other option is valid.
C6_ShardSizeAndPadding ==
    pc = "validated" =>
        /\ (optsBefore.ShardSize <= 0 \/ optsBefore.Padding < 0
              \/ optsBefore.Padding >= optsBefore.ShardSize) => err # NoError
        /\ (0 <= optsBefore.Padding /\ optsBefore.Padding < optsBefore.ShardSize
              /\ OtherThanShardValid(optsBefore)) => err = NoError

\* a call rejected only because padding equals a positive shardSize
C6_Witness ==
    /\ pc = "validated"
    /\ OtherThanShardValid(optsBefore)
    /\ optsBefore.ShardSize > 0
    /\ optsBefore.Padding = optsBefore.ShardSize
    /\ err # NoError

-----------------------------------------------------------------------------
(* C7 *)

\* the options other than the UMI ones are valid
NonUmiValid(o) ==
    /\ o.BamFile # ""
    /\ o.ShardSize > 0
    /\ 0 <= o.Padding /\ o.Padding < o.ShardSize
    /\ o.MinBases > 0
    /\ o.Format \in {"bam", "pam"}

\* C7: with the non-UMI options valid, validate returns an error exactly when
\* umiFile is set without useUmis, or scavengeUmis > -1 without useUmis, or
\* scavengeUmis > -1 with an empty umiFile; -1 disables scavenging, 0 enables.
C7_UmiOptions ==
    (pc = "validated" /\ NonUmiValid(optsBefore)) =>
        (err # NoError <=>
            \/ (optsBefore.UmiFile # "" /\ ~optsBefore.UseUmis)
            \/ (optsBefore.ScavengeUmis > -1 /\ ~optsBefore.UseUmis)
            \/ (optsBefore.ScavengeUmis > -1 /\ optsBefore.UmiFile = ""))

\* scavengeUmis = 0 with useUmis and no umiFile is rejected, and
\* scavengeUmis = -1 without useUmis is accepted
C7_Witness ==
    /\ pc = "validated"
    /\ NonUmiValid(optsBefore)
    /\ optsBefore.ScavengeUmis = 0
    /\ optsBefore.UseUmis
    /\ optsBefore.UmiFile = ""
    /\ err # NoError

C7_WitnessDisabled ==
    /\ pc = "validated"
    /\ NonUmiValid(optsBefore)
    /\ optsBefore.ScavengeUmis = -1
    /\ ~optsBefore.UseUmis
    /\ err = NoError

-----------------------------------------------------------------------------
(* writeHighCoverageIntervals *)

\* number of accumulation calls made on a collection before it is written
NumCalls == 2

\* header.Refs()[refId].Name(), as in the tests' header
RefName(refId) == <<"ref1", "ref2">>[refId + 1]

\* the less function of part_001:236-243 without its last comparison
LessIgnoresEnd(a, b) ==
    IF a.refId # b.refId THEN a.refId < b.refId
    ELSE a.start < b.start

\* part_001:236-243: the less function handed to sort.Slice
Less(a, b) ==
    IF a.refId # b.refId THEN a.refId < b.refId
    ELSE IF a.start # b.start THEN a.start < b.start
    ELSE a.end < b.end

RECURSIVE InsertSorted(_, _, _)
\* data[j] = x is swapped down while it is less than its left neighbour
InsertSorted(left, x, right) ==
    IF Len(left) > 0 /\ Less(x, left[Len(left)])
    THEN InsertSorted(SubSeq(left, 1, Len(left) - 1), x, <<left[Len(left)]>> \o right)
    ELSE left \o <<x>> \o right

RECURSIVE SortSlice(_, _)
\* sort.Slice on a slice shorter than 12: insertion sort, from element i on
SortSlice(data, i) ==
    IF i > Len(data) THEN data
    ELSE SortSlice(InsertSorted(SubSeq(data, 1, i - 1), data[i], <<>>)
                     \o SubSeq(data, i + 1, Len(data)), i + 1)

\* fmt.Sprintf("%0.3f", mean): the thousandths, rounded to nearest
FormatMilli(mean) == (2000 * mean.num + mean.den) \div (2 * mean.den)

\* part_001:246-247: the row of an interval
RowOf(interval) ==
    [start_chr       |-> RefName(interval.refId),
     start_chr_start |-> interval.start + 1,
     end_chr         |-> RefName(interval.refId),
     end_chr_end     |-> interval.end + 1,
     mean_coverage   |-> FormatMilli(interval.meanCoverage)]

\* part_001:244-248: the rows written after the header line
RowsOf(intervals) == [k \in 1 .. Len(intervals) |-> RowOf(intervals[k])]

\* the calls that accumulate intervals in a collection
AccumulationCalls ==
    { [op |-> "AddHighCovInterval", interval |-> iv] : iv \in SomeIntervals }
    \cup { [op |-> "Merge",
            other |-> [NewMetricsCollection EXCEPT !.HighCoverageIntervals = ivs]] :
           ivs \in { <<CoverageInterval(0, 1, 3, Quotient(5, 2)),
                       CoverageInterval(0, 0, 1, Quotient(2, 1))>>,
                     <<CoverageInterval(1, 0, 2, Quotient(3, 1)),
                       CoverageInterval(0, 1, 2, Quotient(4, 1))>> } }

\* the collection after one accumulation call
Accumulate(c, call) ==
    IF call.op = "Merge" THEN MergeResult(c, call.other)
    ELSE AddHighCovIntervalResult(c, call.interval)

\* the file before the call, and after a call whose os.Create failed
NotWritten == [err |-> "not called", lines |-> <<>>]
CreateFailed == [err |-> "Couldn't create high coverage intervals file", lines |-> <<>>]

InitFile ==
    /\ pool \in [1 .. NumCalls -> AccumulationCalls]
    /\ applied = <<>>
    /\ appliedB = 0
    /\ mc = NewMetricsCollection
    /\ mcB = NewMetricsCollection
    /\ rows = NotWritten
    /\ rowsB = NotWritten
    /\ other = NoValue /\ mcBefore = NoValue /\ otherBefore = NoValue
    /\ pc = "accumulate"
    /\ CovIdle /\ WorkerIdle /\ StringIdle /\ ValidateIdle /\ HistIdle /\ KeyIdle

Applied == { applied[k] : k \in 1 .. Len(applied) }

\* the next call on mc: any of the calls not made yet
AccumulateCall(i) ==
    /\ pc = "accumulate"
    /\ rows = NotWritten
    /\ i \in (1 .. NumCalls) \ Applied
    /\ mc' = Accumulate(mc, pool[i])
    /\ applied' = Append(applied, i)
    /\ UNCHANGED <<pc, pool, mcB, appliedB, rows, rowsB, other, mcBefore, otherBefore>>
    /\ UNCHANGED <<covVars, workerVars, stringVars, validateVars, histVars, keyVars>>

\* the next call on mcB: the calls in index order
AccumulateCallB ==
    /\ pc = "accumulate"
    /\ rowsB = NotWritten
    /\ appliedB < NumCalls
    /\ mcB' = Accumulate(mcB, pool[appliedB + 1])
    /\ appliedB' = appliedB + 1
    /\ UNCHANGED <<pc, pool, mc, applied, rows, rowsB, other, mcBefore, otherBefore>>
    /\ UNCHANGED <<covVars, workerVars, stringVars, validateVars, histVars, keyVars>>

\* writeHighCoverageIntervals(globalMetrics = mc); created: os.Create succeeded
WriteHighCoverageIntervals(created) ==
    /\ pc = "accumulate"
    /\ rows = NotWritten
    /\ Len(applied) = NumCalls
    /\ IF created
       THEN /\ mc' = [mc EXCEPT !.HighCoverageIntervals = SortSlice(@, 2)]
            /\ rows' = [err |-> NoError, lines |-> RowsOf(SortSlice(mc.HighCoverageIntervals, 2))]
       ELSE /\ mc' = mc
            /\ rows' = CreateFailed
    /\ UNCHANGED <<pc, pool, applied, mcB, appliedB, rowsB, other, mcBefore, otherBefore>>
    /\ UNCHANGED <<covVars, workerVars, stringVars, validateVars, histVars, keyVars>>

\* writeHighCoverageIntervals(globalMetrics = mcB)
WriteHighCoverageIntervalsB(created) ==
    /\ pc = "accumulate"
    /\ rowsB = NotWritten
    /\ appliedB = NumCalls
    /\ IF created
       THEN /\ mcB' = [mcB EXCEPT !.HighCoverageIntervals = SortSlice(@, 2)]
            /\ rowsB' = [err |-> NoError, lines |-> RowsOf(SortSlice(mcB.HighCoverageIntervals, 2))]
       ELSE /\ mcB' = mcB
            /\ rowsB' = CreateFailed
    /\ UNCHANGED <<pc, pool, applied, mc, appliedB, rows, other, mcBefore, otherBefore>>
    /\ UNCHANGED <<covVars, workerVars, stringVars, validateVars, histVars, keyVars>>

NextFile ==
    \/ \E i \in 1 .. NumCalls : AccumulateCall(i)
    \/ AccumulateCallB
    \/ \E created \in BOOLEAN : WriteHighCoverageIntervals(created)
    \/ \E created \in BOOLEAN : WriteHighCoverageIntervalsB(created)

SpecFile == InitFile /\ [][NextFile]_vars

-----------------------------------------------------------------------------
(* C8 *)

\* writeHighCoverageIntervals wrote the rows of mc
Written == rows.err = NoError
WrittenB == rowsB.err = NoError

\* C8: the row of a stored interval [start, end) (0-based, half-open) has
\* start_chr_start the 1-based position of its first base, start + 1, and
\* end_chr_end the 1-based position of its last base, (end - 1) + 1, so that
\* a single-base interval is written with start_chr_start = end_chr_end.
C8_RowsOneBasedInclusive ==
    Written =>
        \A k \in 1 .. Len(rows.lines) :
            /\ rows.lines[k].start_chr_start = mc.HighCoverageIntervals[k].start + 1
            /\ rows.lines[k].end_chr_end = (mc.HighCoverageIntervals[k].end - 1) + 1
            /\ (mc.HighCoverageIntervals[k].end = mc.HighCoverageIntervals[k].start + 1)
                  => rows.lines[k].start_chr_start = rows.lines[k].end_chr_end

\* what the code writes: the 1-based first base and the position after the
\* 1-based last base
C8_RowsOneBasedHalfOpen ==
    Written =>
        \A k \in 1 .. Len(rows.lines) :
            /\ rows.lines[k].start_chr_start = mc.HighCoverageIntervals[k].start + 1
            /\ rows.lines[k].end_chr_end = mc.HighCoverageIntervals[k].end + 1

-----------------------------------------------------------------------------
(* C9 *)

\* the refId a row's chromosome name stands for
RefIdOf(name) == CHOOSE ref \in Refs : RefName(ref) = name

\* row a does not come after row b in (refId, start, end) order
RowLE(a, b) ==
    \/ CoordLT(RefIdOf(a.start_chr), a.start_chr_start,
               RefIdOf(b.start_chr), b.start_chr_start)
    \/ /\ a.start_chr = b.start_chr
       /\ a.start_chr_start = b.start_chr_start
       /\ a.end_chr_end <= b.end_chr_end

RowsAscending(lines) == \A k \in 1 .. Len(lines) - 1 : RowLE(lines[k], lines[k + 1])

\* the (chr, start, end) columns of a row
RowRange(r) == <<r.start_chr, r.start_chr_start, r.end_chr_end>>

\* the number of intervals a call accumulates
IntervalsOf(call) ==
    IF call.op = "Merge" THEN Len(call.other.HighCoverageIntervals) ELSE 1

RECURSIVE IntervalsAccumulated(_)
IntervalsAccumulated(n) ==
    IF n = 0 THEN 0 ELSE IntervalsAccumulated(n - 1) + IntervalsOf(pool[n])

\* how often row r occurs in lines
Occurrences(lines, r) == Cardinality({ k \in 1 .. Len(lines) : lines[k] = r })

\* no two accumulated intervals cover the same range with different rows
NoRangeClash ==
    \A j, k \in 1 .. Len(rows.lines) :
        RowRange(rows.lines[j]) = RowRange(rows.lines[k]) => rows.lines[j] = rows.lines[k]

\* C9 as stated: the rows are in ascending (refId, start, end) order, one per
\* accumulated interval, and the same sequence of rows is written whatever the
\* order in which the same intervals were accumulated.
C9_RowsIndependentOfOrder ==
    (Written /\ WrittenB) =>
        /\ RowsAscending(rows.lines)
        /\ Len(rows.lines) = IntervalsAccumulated(NumCalls)
        /\ rows.lines = rowsB.lines

\* C9 as amended: the rows are in ascending (refId, start, end) order, one
\* per accumulated interval; two accumulation orders of the same intervals
\* give the same rows with the same sequence of (chr, start, end) columns,
\* and the same sequence of rows when no two accumulated intervals cover the
\* same range with different mean coverage.
C9_RowsSortedSameRanges ==
    (Written /\ WrittenB) =>
        /\ RowsAscending(rows.lines)
        /\ RowsAscending(rowsB.lines)
        /\ Len(rows.lines) = IntervalsAccumulated(NumCalls)
        /\ Len(rowsB.lines) = IntervalsAccumulated(NumCalls)
        /\ \A k \in 1 .. Len(rows.lines) :
              /\ RowRange(rows.lines[k]) = RowRange(rowsB.lines[k])
              /\ Occurrences(rows.lines, rows.lines[k])
                    = Occurrences(rowsB.lines, rows.lines[k])
        /\ NoRangeClash => rows.lines = rowsB.lines

\* both files written after the same calls, a Merge and an AddHighCovInterval
\* among them, were made in two different orders
C9_Witness ==
    /\ Written /\ WrittenB
    /\ applied[1] # 1
    /\ \E i \in 1 .. NumCalls : pool[i].op = "Merge"
    /\ \E i \in 1 .. NumCalls : pool[i].op = "AddHighCovInterval"
    /\ NoRangeClash
    /\ rows.lines = rowsB.lines
    /\ \E j, k \in 1 .. Len(rows.lines) : rows.lines[j] # rows.lines[k]

-----------------------------------------------------------------------------
(* Metrics.String *)

\* largest value of a counter of the Metrics String is called on
MaxCount == 4
\* largest library size a successful estimateLibrarySize returns above the
\* number of unique pairs, and largest value returned beside an error
MaxExcess == 2

\* the Metrics String is called on: optical duplicates are among the
\* duplicates, duplicates among the reads examined
MetricsSet ==
    { m \in [UnpairedReads : 0 .. MaxCount, ReadPairsExamined : 0 .. MaxCount,
             SecondarySupplementary : {0, MaxCount}, UnmappedReads : {0, MaxCount},
             UnpairedDups : 0 .. MaxCount, ReadPairDups : 0 .. MaxCount,
             ReadPairOpticalDups : 0 .. MaxCount] :
        /\ m.UnpairedDups <= m.UnpairedReads
        /\ m.ReadPairDups <= m.ReadPairsExamined
        /\ m.ReadPairOpticalDups <= m.ReadPairDups }

\* estimateLibrarySize(readPairs, uniqueReadPairs): every (value, error) it
\* may return.  It fails when uniqueReadPairs > readPairs and when the
\* equation has no root (no duplicate pair, or no unique pair); otherwise it
\* returns a library size of at least uniqueReadPairs, or fails to converge.
EstimateLibrarySize(readPairs, uniqueReadPairs) ==
    { [value |-> v, err |-> "MathError"] : v \in 0 .. MaxExcess }
    \cup IF uniqueReadPairs > readPairs \/ uniqueReadPairs = readPairs
            \/ uniqueReadPairs = 0
         THEN {}
         ELSE { [value |-> uniqueReadPairs + x, err |-> NoError] : x \in 0 .. MaxExcess }

Digit(d) == <<"0", "1", "2", "3", "4", "5", "6", "7", "8", "9">>[d + 1]

RECURSIVE FormatDecimal(_)
\* fmt: %d and %v of a non-negative integer
FormatDecimal(n) ==
    IF n < 10 THEN Digit(n) ELSE FormatDecimal(n \div 10) \o Digit(n % 10)

RECURSIVE FormatDigits(_, _)
\* the last k decimal digits of n, zeros included
FormatDigits(n, k) ==
    IF k = 0 THEN "" ELSE FormatDigits(n \div 10, k - 1) \o Digit(n % 10)

\* fmt: %0.6f of 100 * (float64(dups) / float64(reads))
FormatPercent(dups, reads) ==
    IF reads = 0 THEN (IF dups = 0 THEN "NaN" ELSE "+Inf")
    ELSE LET scaled == 100000000 * dups
             micro == (scaled \div reads) + (IF 2 * (scaled % reads) >= reads THEN 1 ELSE 0)
         IN  FormatDecimal(micro \div 1000000) \o "." \o FormatDigits(micro % 1000000, 6)

\* uint64(x) of an int that is not negative
Uint64(x) == x

\* part_001:66-67: the arguments of estimateLibrarySize
LibrarySizeArgs(m) ==
    [a |-> Uint64((m.ReadPairsExamined \div 2) - (m.ReadPairOpticalDups \div 2)),
     b |-> Uint64((m.ReadPairsExamined \div 2) - (m.ReadPairDups \div 2))]

\* part_001:65-73 with the returned value formatted whatever err is
LibrarySizeStrIgnoresErr(estimated) == FormatDecimal(estimated.value)

\* part_001:65-73: librarySizeStr
LibrarySizeStr(estimated) ==
    IF estimated.err = NoError THEN FormatDecimal(estimated.value) ELSE "0"

\* part_001:75-79 with the read-pair counters emitted as they are stored
StringFieldsUnhalved(m, estimated) ==
    << FormatDecimal(m.UnpairedReads),
       FormatDecimal(m.ReadPairsExamined),
       FormatDecimal(m.SecondarySupplementary),
       FormatDecimal(m.UnmappedReads),
       FormatDecimal(m.UnpairedDups),
       FormatDecimal(m.ReadPairDups),
       FormatDecimal(m.ReadPairOpticalDups),
       FormatPercent(m.UnpairedDups + m.ReadPairDups,
                     m.UnpairedReads + m.ReadPairsExamined),
       LibrarySizeStr(estimated) >>

\* part_001:75-79: the tab-separated fields of the string returned
StringFields(m, estimated) ==
    << FormatDecimal(m.UnpairedReads),
       FormatDecimal(m.ReadPairsExamined \div 2),
       FormatDecimal(m.SecondarySupplementary),
       FormatDecimal(m.UnmappedReads),
       FormatDecimal(m.UnpairedDups),
       FormatDecimal(m.ReadPairDups \div 2),
       FormatDecimal(m.ReadPairOpticalDups \div 2),
       FormatPercent(m.UnpairedDups + m.ReadPairDups,
                     m.UnpairedReads + m.ReadPairsExamined),
       LibrarySizeStr(estimated) >>

InitString ==
    /\ metrics \in MetricsSet
    /\ libArgs = NoValue
    /\ estimate = NoValue
    /\ row = NoValue
    /\ errLogged = NoValue
    /\ pc = "format"
    /\ CovIdle /\ MergeIdle /\ WorkerIdle /\ FileIdle /\ ValidateIdle /\ HistIdle /\ KeyIdle

\* m.String(), estimateLibrarySize returning estimated
String(estimated) ==
    /\ pc = "format"
    /\ libArgs' = LibrarySizeArgs(metrics)
    /\ estimate' = estimated
    /\ row' = StringFields(metrics, estimated)
    /\ errLogged' = (estimated.err # NoError)
    /\ pc' = "formatted"
    /\ UNCHANGED metrics
    /\ UNCHANGED <<covVars, mergeVars, workerVars, fileVars, validateVars, histVars, keyVars>>

NextString ==
    \E estimated \in EstimateLibrarySize(LibrarySizeArgs(metrics).a,
                                         LibrarySizeArgs(metrics).b) :
        String(estimated)

SpecString == InitString /\ [][NextString]_vars

-----------------------------------------------------------------------------
(* C10 *)

\* the fields of the row that do not hold the library size
FieldsBesideLibrarySize ==
    << FormatDecimal(metrics.UnpairedReads),
       FormatDecimal(metrics.ReadPairsExamined \div 2),
       FormatDecimal(metrics.SecondarySupplementary),
       FormatDecimal(metrics.UnmappedReads),
       FormatDecimal(metrics.UnpairedDups),
       FormatDecimal(metrics.ReadPairDups \div 2),
       FormatDecimal(metrics.ReadPairOpticalDups \div 2),
       FormatPercent(metrics.UnpairedDups + metrics.ReadPairDups,
                     metrics.UnpairedReads + metrics.ReadPairsExamined) >>

\* C10: when estimateLibrarySize returns an error, String still returns a
\* complete row whose ESTIMATED_LIBRARY_SIZE is the literal 0 (and logs the
\* error), its other fields being what they are without an error; when it
\* returns a value without error, that value is the field's content.
C10_SolverFailureGivesZero ==
    pc = "formatted" =>
        /\ Len(row) = 9
        /\ SubSeq(row, 1, 8) = FieldsBesideLibrarySize
        /\ estimate.err # NoError => (row[9] = "0" /\ errLogged)
        /\ estimate.err = NoError => (row[9] = FormatDecimal(estimate.value) /\ ~errLogged)

\* a row formatted after the solver failed while returning a non-zero value
C10_Witness ==
    /\ pc = "formatted"
    /\ estimate.err # NoError
    /\ estimate.value > 0
    /\ row[9] = "0"
    /\ metrics.ReadPairDups > metrics.ReadPairOpticalDups

\* a row formatted after the solver returned a library size
C10_WitnessValue ==
    /\ pc = "formatted"
    /\ estimate.err = NoError
    /\ estimate.value > 0
    /\ row[9] = FormatDecimal(estimate.value)

-----------------------------------------------------------------------------
(* C11 *)

\* field is the decimal text of the number n
IsDecimalOf(field, n) == n \in 0 .. MaxCount /\ FormatDecimal(n) = field

\* h is n divided by 2, rounded down
IsHalfOf(h, n) == 2 * h <= n /\ n < 2 * h + 2

\* field is the decimal text of half the counter, rounded down
EmitsHalf(field, counter) ==
    \E h \in 0 .. MaxCount : IsDecimalOf(field, h) /\ IsHalfOf(h, counter)

\* C11: in the row String returns, READ_PAIRS_EXAMINED, READ_PAIR_DUPLICATES
\* and READ_PAIR_OPTICAL_DUPLICATES are the per-read counters divided by 2
\* (rounded down), the arguments of estimateLibrarySize are the halved pairs
\* examined less the halved optical duplicates and less the halved
\* duplicates, and UNPAIRED_READS_EXAMINED, SECONDARY_OR_SUPPLEMENTARY_RDS,
\* UNMAPPED_READS and UNPAIRED_READ_DUPLICATES are the counters themselves.
C11_ReadPairCountsHalved ==
    pc = "formatted" =>
        /\ EmitsHalf(row[2], metrics.ReadPairsExamined)
        /\ EmitsHalf(row[6], metrics.ReadPairDups)
        /\ EmitsHalf(row[7], metrics.ReadPairOpticalDups)
        /\ \E e, d, o \in 0 .. MaxCount :
              /\ IsHalfOf(e, metrics.ReadPairsExamined)
              /\ IsHalfOf(d, metrics.ReadPairDups)
              /\ IsHalfOf(o, metrics.ReadPairOpticalDups)
              /\ libArgs = [a |-> e - o, b |-> e - d]
        /\ IsDecimalOf(row[1], metrics.UnpairedReads)
        /\ IsDecimalOf(row[3], metrics.SecondarySupplementary)
        /\ IsDecimalOf(row[4], metrics.UnmappedReads)
        /\ IsDecimalOf(row[5], metrics.UnpairedDups)

\* a row formatted from odd read-pair counters, where halving rounds, and
\* odd unpaired counters, which are emitted as they are
C11_Witness ==
    /\ pc = "formatted"
    /\ metrics.ReadPairsExamined = 3
    /\ metrics.ReadPairDups = 3
    /\ metrics.ReadPairOpticalDups = 1
    /\ metrics.UnpairedReads = 3
    /\ metrics.UnpairedDups = 1
    /\ row[2] = "1" /\ row[6] = "1" /\ row[7] = "0"
    /\ row[1] = "3" /\ row[5] = "1"
    /\ libArgs = [a |-> 1, b |-> 0]

-----------------------------------------------------------------------------
(* getCoverageMap and recOrMateInHighCovInterval *)

\* largest number of intervals in the list handed to getCoverageMap
MaxIntervals == 2

\* highcoverage.go:125-131: the intervalmap.Entry of a coverageInterval
Entry(interval) ==
    [Interval |-> [Start |-> interval.start, Limit |-> interval.end],
     Data |-> interval.meanCoverage]

\* highcoverage.go:123-131 with the entry assigned in place of appended
AppendEntryOverwrites(allEntries, interval) ==
    IF interval.refId \in DOMAIN allEntries
    THEN [allEntries EXCEPT ![interval.refId] = <<Entry(interval)>>]
    ELSE (interval.refId :> <<Entry(interval)>>) @@ allEntries

\* highcoverage.go:123-131: the entry joins those of its refId
AppendEntry(allEntries, interval) ==
    IF interval.refId \in DOMAIN allEntries
    THEN [allEntries EXCEPT ![interval.refId] = Append(@, Entry(interval))]
    ELSE (interval.refId :> <<Entry(interval)>>) @@ allEntries

RECURSIVE AllEntries(_, _)
\* highcoverage.go:121-132: allEntries after the first k intervals
AllEntries(intervals, k) ==
    IF k = 0 THEN [refId \in {} |-> <<>>]
    ELSE AppendEntry(AllEntries(intervals, k - 1), intervals[k])

\* getCoverageMap: refId -> the entries intervalmap.New was given; a refId
\* without interval is no key of the map
GetCoverageMap(intervals) ==
    LET allEntries == AllEntries(intervals, Len(intervals))
    IN  [refId \in DOMAIN allEntries |-> allEntries[refId]]

\* intervalmap.Interval.Intersects, on half-open intervals
Intersects(i, j) == i.Start < j.Limit /\ j.Start < i.Limit

\* intervalmap.T.Get(query, &entries) found an entry of refId
AnyEntry(covMap, refId, query) ==
    /\ refId \in DOMAIN covMap
    /\ \E k \in 1 .. Len(covMap[refId]) : Intersects(covMap[refId][k].Interval, query)

\* recOrMateInHighCovInterval(covMap, r), the found result: the record's
\* alignment is looked up on its reference, the mate's position on the mate's
RecOrMateInHighCovInterval(covMap, r) ==
    \/ AnyEntry(covMap, r.Ref, [Start |-> RecStart(r), Limit |-> RecEnd(r)])
    \/ AnyEntry(covMap, r.MateRef, [Start |-> r.MatePos, Limit |-> r.MatePos + 1])

\* the mean coverages intervals are drawn with
SomeMeans == { Quotient(5, 1), Quotient(7, 2) }

\* every non-empty interval on a reference
AllIntervals ==
    { iv \in [refId : Refs, start : 0 .. MaxRefLen - 1, end : 1 .. MaxRefLen,
              meanCoverage : SomeMeans] :
        /\ iv.start < iv.end /\ iv.end <= RefLen(iv.refId)
        /\ iv.meanCoverage = (IF iv.refId = 0 THEN Quotient(5, 1) ELSE Quotient(7, 2)) }

\* (refId, start, end) of a precedes that of b
IntervalBefore(a, b) ==
    \/ a.refId < b.refId
    \/ a.refId = b.refId /\ a.start < b.start
    \/ a.refId = b.refId /\ a.start = b.start /\ a.end < b.end

\* the lists handed to getCoverageMap: up to MaxIntervals intervals in
\* ascending order, overlapping or not
IntervalLists ==
    UNION { { l \in [1 .. n -> AllIntervals] :
                \A i \in 1 .. n - 1 : IntervalBefore(l[i], l[i + 1]) } :
            n \in 0 .. MaxIntervals }

\* the mapped records looked up, with a mate on either reference or none
\* (MateRef -1, MatePos -1)
MatedRecords ==
    { r \in [Ref : Refs, Pos : 0 .. MaxRefLen - 1, Cigar : Cigars,
             MateRef : Refs \cup {-1}, MatePos : -1 .. MaxRefLen - 1] :
        /\ r.Pos < RefLen(r.Ref)
        /\ RecLen(r) > 0
        /\ (r.MateRef = -1) = (r.MatePos = -1)
        /\ r.MateRef # -1 => r.MatePos < RefLen(r.MateRef) }

InitLookup ==
    /\ highCovIntervals \in IntervalLists
    /\ highCovMap = NoValue
    /\ found = NoValue
    /\ rec = NoValue
    /\ shard = NoValue /\ covBefore = NoValue /\ coverageCounts = NoValue
    /\ procErr = NoValue /\ maxCoverage = NoValue
    /\ shards = NoValue /\ recs = NoValue /\ pending = NoValue
    /\ pc = "map"
    /\ MergeIdle /\ WorkerIdle /\ FileIdle /\ StringIdle /\ ValidateIdle /\ HistIdle /\ KeyIdle

\* highCovMap := getCoverageMap(intervals)
BuildCoverageMap ==
    /\ pc = "map"
    /\ highCovMap' = GetCoverageMap(highCovIntervals)
    /\ pc' = "lookup"
    /\ UNCHANGED <<shard, rec, covBefore, coverageCounts, procErr, maxCoverage,
                   highCovIntervals, found>>
    /\ UNCHANGED <<shards, recs, pending>>
    /\ UNCHANGED <<mergeVars, workerVars, fileVars, stringVars, validateVars, histVars, keyVars>>

\* found, _ := recOrMateInHighCovInterval(highCovMap, r)
Lookup(r) ==
    /\ pc = "lookup"
    /\ rec' = r
    /\ found' = RecOrMateInHighCovInterval(highCovMap, r)
    /\ pc' = "looked"
    /\ UNCHANGED <<shard, covBefore, coverageCounts, procErr, maxCoverage,
                   highCovIntervals, highCovMap>>
    /\ UNCHANGED <<shards, recs, pending>>
    /\ UNCHANGED <<mergeVars, workerVars, fileVars, stringVars, validateVars, histVars, keyVars>>

NextLookup ==
    \/ BuildCoverageMap
    \/ \E r \in MatedRecords : Lookup(r)

SpecLookup == InitLookup /\ [][NextLookup]_vars

-----------------------------------------------------------------------------
(* C12 *)

\* the record's alignment intersects interval iv of its reference
RecordHits(iv) ==
    /\ iv.refId = rec.Ref
    /\ \E p \in iv.start .. iv.end - 1 : RecStart(rec) <= p /\ p < RecEnd(rec)

\* the mate's position lies in interval iv of the mate's reference
MateHits(iv) ==
    /\ iv.refId = rec.MateRef
    /\ rec.MatePos \in iv.start .. iv.end - 1

\* C12: for the map getCoverageMap builds from a list of intervals,
\* recOrMateInHighCovInterval reports found exactly when the record's
\* alignment on its reference, or its mate's position on the mate's
\* reference, intersects some interval [start, end) of the list on that
\* reference.
C12_FoundIffRecordOrMateIntersects ==
    pc = "looked" =>
        found = (\E i \in 1 .. Len(highCovIntervals) :
                    RecordHits(highCovIntervals[i]) \/ MateHits(highCovIntervals[i]))

\* a lookup found by the mate alone, on another reference than the record's,
\* in the first of two intervals of that reference
C12_Witness ==
    /\ pc = "looked"
    /\ found = TRUE
    /\ Len(highCovIntervals) = 2
    /\ highCovIntervals[1].refId = highCovIntervals[2].refId
    /\ rec.MateRef # rec.Ref
    /\ MateHits(highCovIntervals[1])
    /\ ~MateHits(highCovIntervals[2])
    /\ \A i \in 1 .. 2 : ~RecordHits(highCovIntervals[i])

\* a lookup where record and mate both miss every interval, the mate on a
\* reference without interval
C12_WitnessMiss ==
    /\ pc = "looked"
    /\ found = FALSE
    /\ Len(highCovIntervals) = 2
    /\ rec.MateRef \in Refs
    /\ rec.MateRef \notin DOMAIN highCovMap
    /\ rec.Ref \in DOMAIN highCovMap

-----------------------------------------------------------------------------
(* Pass 1 over a set of shards *)

\* largest number of records read in pass 1
MaxRecords == 2

\* the coordinates a shard may start at, beside the first
CutPoints == { c \in Refs \X (0 .. MaxRefLen - 1) : c[2] < RefLen(c[1]) } \ { <<0, 0>> }

\* the first of a non-empty set of coordinates
FirstCut(cuts) == CHOOSE c \in cuts : \A d \in cuts : ~CoordLT(d[1], d[2], c[1], c[2])

RECURSIVE ShardsFrom(_, _)
\* the shards from coordinate start on, cut at cuts, up to the end of the
\* last reference
ShardsFrom(start, cuts) ==
    IF cuts = {}
    THEN << [StartRef |-> start[1], Start |-> start[2],
             EndRef |-> NumRefs - 1, End |-> RefLen(NumRefs - 1)] >>
    ELSE LET c == FirstCut(cuts)
         IN  << [StartRef |-> start[1], Start |-> start[2],
                 EndRef |-> c[1], End |-> c[2]] >> \o ShardsFrom(c, cuts \ {c})

\* every division of the references into consecutive shards
ShardLists == { ShardsFrom(<<0, 0>>, cuts) : cuts \in SUBSET CutPoints }

\* the shard reader of s delivers r: some aligned base of r is in s
Overlaps(s, r) ==
    \E p \in RecStart(r) .. RecEnd(r) - 1 : CoordInShard(s, 0, r.Ref, p)

InitShards ==
    /\ shards \in ShardLists
    /\ recs = <<>>
    /\ pending = {}
    /\ coverageCounts = FlatCoverage(0)
    /\ shard = NoValue /\ rec = NoValue /\ covBefore = NoValue
    /\ procErr = NoValue /\ maxCoverage = NoValue
    /\ highCovIntervals = NoValue /\ highCovMap = NoValue /\ found = NoValue
    /\ pc = "pass1"
    /\ MergeIdle /\ WorkerIdle /\ FileIdle /\ StringIdle /\ ValidateIdle /\ HistIdle /\ KeyIdle

\* record r is in the input: each shard it overlaps will process it
ReadRecord(r) ==
    /\ pc = "pass1"
    /\ Len(recs) < MaxRecords
    /\ recs' = Append(recs, r)
    /\ pending' = pending \cup
           { <<i, Len(recs) + 1>> : i \in { j \in 1 .. Len(shards) : Overlaps(shards[j], r) } }
    /\ UNCHANGED <<shard, rec, covBefore, coverageCounts, procErr, maxCoverage,
                   highCovIntervals, highCovMap, found, shards, pc>>
    /\ UNCHANGED <<mergeVars, workerVars, fileVars, stringVars, validateVars, histVars, keyVars>>

\* the worker of shard i calls Process(shards[i], recs[k])
ProcessInShard(i, k) ==
    /\ pc = "pass1"
    /\ <<i, k>> \in pending
    /\ shard' = shards[i]
    /\ rec' = recs[k]
    /\ covBefore' = coverageCounts
    /\ coverageCounts' = ProcessCounts(shards[i], recs[k], coverageCounts)
    /\ procErr' = "nil"
    /\ pending' = pending \ { <<i, k>> }
    /\ UNCHANGED <<maxCoverage, highCovIntervals, highCovMap, found, shards, recs, pc>>
    /\ UNCHANGED <<mergeVars, workerVars, fileVars, stringVars, validateVars, histVars, keyVars>>

NextShards ==
    \/ \E r \in Records : ReadRecord(r)
    \/ \E i \in 1 .. Len(shards), k \in 1 .. Len(recs) : ProcessInShard(i, k)

SpecShards == InitShards /\ [][NextShards]_vars

-----------------------------------------------------------------------------
(* C13 *)

\* the number of records read whose aligned span covers position p of ref
RECURSIVE Covering(_, _, _)
Covering(k, ref, p) ==
    IF k = 0 THEN 0
    ELSE Covering(k - 1, ref, p)
         + (IF recs[k].Ref = ref /\ RecStart(recs[k]) <= p /\ p < RecEnd(recs[k])
            THEN 1 ELSE 0)

\* C13: over shards with disjoint owned ranges that cover the references,
\* with every record processed in each shard it overlaps, in any order, a
\* Process call increments only cells of positions its shard owns, and once
\* every call is made the count at every position is the number of records
\* whose aligned reference span covers the position.
C13_CountedOnceAcrossShards ==
    pc = "pass1" =>
        /\ procErr = "nil" =>
              \A ref \in Refs : \A p \in 0 .. RefLen(ref) - 1 :
                  coverageCounts[ref][p] # covBefore[ref][p] =>
                      CoordInShard(shard, 0, ref, p)
        /\ pending = {} =>
              \A ref \in Refs : \A p \in 0 .. RefLen(ref) - 1 :
                  coverageCounts[ref][p] = Covering(Len(recs), ref, p)

\* the same statement when no record both starts before a shard that
\* processes it and ends after it
C13_CountedOnceUnlessStraddling ==
    (pc = "pass1"
        /\ \A i \in 1 .. Len(shards) : \A k \in 1 .. Len(recs) :
              ~(BasesPreShard(shards[i], recs[k]) > 0
                /\ BasesPreShard(shards[i], recs[k]) < RecLen(recs[k])
                /\ PostShardLoop(shards[i], recs[k], RecEnd(recs[k]) - 1) > 0)) =>
        /\ procErr = "nil" =>
              \A ref \in Refs : \A p \in 0 .. RefLen(ref) - 1 :
                  coverageCounts[ref][p] # covBefore[ref][p] =>
                      CoordInShard(shard, 0, ref, p)
        /\ pending = {} =>
              \A ref \in Refs : \A p \in 0 .. RefLen(ref) - 1 :
                  coverageCounts[ref][p] = Covering(Len(recs), ref, p)

-----------------------------------------------------------------------------
(* AddDistance and Merge on the optical-distance histogram *)

\* largest bag size handed to AddDistance
MaxBagSize == 9
\* largest number of calls made on the collections
MaxAdds == 3

\* part_001:181-189: mc.OpticalDistance[b][distance] is inside the bucket
IndexInRange(od, b, d) == d + 1 <= Len(od[BucketOf(b)])

\* the fields of the receiver after AddDistance(b, d); when the index is out
\* of range the call panics after the buckets were regrown
AddDistanceOutcome(c, b, d) ==
    LET od == GrowForDistance(c.OpticalDistance, d)
    IN  IF IndexInRange(od, b, d)
        THEN [after |-> [c EXCEPT !.OpticalDistance =
                            [od EXCEPT ![BucketOf(b)][d + 1] = @ + 1]],
              panic |-> FALSE]
        ELSE [after |-> [c EXCEPT !.OpticalDistance = od], panic |-> TRUE]

\* the positions of the caller: the last call made, if any
HistPositions == {"new", "AddDistance", "other.AddDistance", "Merge", "other.Merge"}

InitHistogram ==
    /\ mc = NewMetricsCollection
    /\ other = NewMetricsCollection
    /\ mcBefore = NewMetricsCollection
    /\ otherBefore = NewMetricsCollection
    /\ lastBagSize = NoValue
    /\ lastDistance = NoValue
    /\ numCalls = 0
    /\ panicked = FALSE
    /\ pc = "new"
    /\ CovIdle /\ WorkerIdle /\ FileIdle /\ StringIdle /\ ValidateIdle /\ KeyIdle

\* mc.AddDistance(b, d)
AddDistance(b, d) ==
    /\ pc \in HistPositions /\ ~panicked /\ numCalls < MaxAdds
    /\ mcBefore' = mc
    /\ mc' = AddDistanceOutcome(mc, b, d).after
    /\ panicked' = AddDistanceOutcome(mc, b, d).panic
    /\ lastBagSize' = b
    /\ lastDistance' = d
    /\ numCalls' = numCalls + 1
    /\ pc' = "AddDistance"
    /\ UNCHANGED <<other, otherBefore>>
    /\ UNCHANGED <<covVars, workerVars, fileVars, stringVars, validateVars, keyVars>>

\* other.AddDistance(b, d)
AddDistanceOther(b, d) ==
    /\ pc \in HistPositions /\ ~panicked /\ numCalls < MaxAdds
    /\ otherBefore' = other
    /\ other' = AddDistanceOutcome(other, b, d).after
    /\ panicked' = AddDistanceOutcome(other, b, d).panic
    /\ lastBagSize' = b
    /\ lastDistance' = d
    /\ numCalls' = numCalls + 1
    /\ pc' = "other.AddDistance"
    /\ UNCHANGED <<mc, mcBefore>>
    /\ UNCHANGED <<covVars, workerVars, fileVars, stringVars, validateVars, keyVars>>

\* mc.Merge(other)
MergeOther ==
    /\ pc \in HistPositions /\ ~panicked /\ numCalls < MaxAdds
    /\ mcBefore' = mc
    /\ mc' = MergeResult(mc, other)
    /\ numCalls' = numCalls + 1
    /\ pc' = "Merge"
    /\ UNCHANGED <<other, otherBefore, lastBagSize, lastDistance, panicked>>
    /\ UNCHANGED <<covVars, workerVars, fileVars, stringVars, validateVars, keyVars>>

\* other.Merge(mc)
MergeIntoOther ==
    /\ pc \in HistPositions /\ ~panicked /\ numCalls < MaxAdds
    /\ otherBefore' = other
    /\ other' = MergeResult(other, mc)
    /\ numCalls' = numCalls + 1
    /\ pc' = "other.Merge"
    /\ UNCHANGED <<mc, mcBefore, lastBagSize, lastDistance, panicked>>
    /\ UNCHANGED <<covVars, workerVars, fileVars, stringVars, validateVars, keyVars>>

\* AddDistance calls alone, with every bag size up to MaxBagSize
NextAddDistance ==
    \E b \in 1 .. MaxBagSize, d \in 0 .. MaxDistance : AddDistance(b, d)

SpecAddDistance == InitHistogram /\ [][NextAddDistance]_vars

\* AddDistance and Merge calls on two collections
NextHistogram ==
    \/ \E b \in BagSizes, d \in 0 .. MaxDistance : AddDistance(b, d)
    \/ \E b \in BagSizes, d \in 0 .. MaxDistance : AddDistanceOther(b, d)
    \/ MergeOther
    \/ MergeIntoOther

SpecHistogram == InitHistogram /\ [][NextHistogram]_vars

-----------------------------------------------------------------------------
(* C14 *)

\* the bucket the histogram file names for a bag size: bagsize-2,
\* bagsize3-4, bagsize5-7, bagsize8-
BucketOfRange(b) ==
    CHOOSE i \in 1 .. NumBuckets :
        \/ i = 1 /\ b <= 2
        \/ i = 2 /\ b \in 3 .. 4
        \/ i = 3 /\ b \in 5 .. 7
        \/ i = 4 /\ b >= 8

RECURSIVE BucketCount(_, _, _)
\* the sum of the first k cells of bucket i
BucketCount(c, i, k) ==
    IF k = 0 THEN 0 ELSE BucketCount(c, i, k - 1) + c.OpticalDistance[i][k]

RECURSIVE TotalCount(_, _)
\* the sum of the cells of the first i buckets
TotalCount(c, i) ==
    IF i = 0 THEN 0
    ELSE TotalCount(c, i - 1) + BucketCount(c, i, Len(c.OpticalDistance[i]))

\* C14: AddDistance(bagSize, distance) with distance >= 0 adds 1 to the cell
\* at index distance of the bucket of the bag size (bucket 0 up to 2, bucket
\* 1 for 3..4, bucket 2 for 5..7, bucket 3 from 8) and leaves every other
\* cell's count unchanged, also when the buckets are grown; after AddDistance
\* calls alone the sum of all cells is the number of calls.
C14_AddDistanceIncrementsOneCell ==
    pc = "AddDistance" =>
        /\ ~panicked
        /\ \A i \in 1 .. NumBuckets :
              /\ Len(mc.OpticalDistance[i]) <= MaxDistance + 1
              /\ \A j \in 0 .. MaxDistance :
                    CellOf(mc, i, j) =
                        CellOf(mcBefore, i, j)
                        + (IF i = BucketOfRange(lastBagSize) /\ j = lastDistance
                           THEN 1 ELSE 0)
        /\ lastDistance < Len(mc.OpticalDistance[BucketOfRange(lastBagSize)])
        /\ TotalCount(mc, NumBuckets) = numCalls

\* a call past the end of the buckets, in the last bucket, after counts were
\* added in two other buckets
C14_Witness ==
    /\ pc = "AddDistance"
    /\ numCalls = 3
    /\ lastBagSize = 8
    /\ lastDistance >= Len(mcBefore.OpticalDistance[1])
    /\ CellOf(mcBefore, 1, 0) = 1
    /\ CellOf(mcBefore, 2, 0) = 1
    /\ CellOf(mc, 4, lastDistance) = 1
    /\ CellOf(mc, 1, 0) = 1

-----------------------------------------------------------------------------
(* C15 *)

\* the buckets of c all have the length of the first
SameLengths(c) ==
    \A i \in 1 .. NumBuckets : Len(c.OpticalDistance[i]) = Len(c.OpticalDistance[1])

\* C15: in every collection reached from newMetricsCollection by AddDistance
\* (distance >= 0) and Merge calls, the four OpticalDistance buckets have the
\* same length, a call never shortens them, and AddDistance never indexes a
\* bucket out of range.
C15_BucketLengthsEqual ==
    pc \in HistPositions =>
        /\ Len(mc.OpticalDistance) = NumBuckets
        /\ Len(other.OpticalDistance) = NumBuckets
        /\ SameLengths(mc)
        /\ SameLengths(other)
        /\ Len(mc.OpticalDistance[1]) >= Len(mcBefore.OpticalDistance[1])
        /\ Len(other.OpticalDistance[1]) >= Len(otherBefore.OpticalDistance[1])
        /\ ~panicked

\* an AddDistance into the last bucket of a collection whose buckets a Merge
\* of a collection with one distance added had grown, at a distance past the
\* first length
C15_Witness ==
    /\ pc = "AddDistance"
    /\ lastBagSize = 8
    /\ lastDistance >= NewHistLen
    /\ Len(mcBefore.OpticalDistance[1]) > NewHistLen
    /\ numCalls = 3
    /\ TotalCount(other, NumBuckets) = 1
    /\ Len(other.OpticalDistance[1]) > NewHistLen
    /\ TotalCount(mcBefore, NumBuckets) = 1
    /\ TotalCount(mc, NumBuckets) = 2
    /\ CellOf(mc, 4, lastDistance) >= 1

-----------------------------------------------------------------------------
(* duplicateKey and Orientation *)

\* duplicate_key.go:24-31: the Orientation constants f, r, ff, fr, rf, rr
orientF == 0
orientR == 1
orientFF == 2
orientFR == 3
orientRF == 4
orientRR == 5

Orientations == {orientF, orientR, orientFF, orientFR, orientRF, orientRR}

\* duplicateKey.isSingle
IsSingle(k) == k.Orientation = orientF \/ k.Orientation = orientR

\* orientationByteSingle
OrientationByteSingle(reversed) == IF reversed THEN orientR ELSE orientF

\* leftOrientation: the value returned, and whether log.Fatal was called
LeftOrientation(o) ==
    IF o = orientF \/ o = orientR THEN [value |-> orientR, fatal |-> TRUE]
    ELSE IF o = orientFF \/ o = orientFR THEN [value |-> orientF, fatal |-> FALSE]
    ELSE [value |-> orientR, fatal |-> FALSE]

\* rightOrientation: the value returned, and whether log.Fatal was called
RightOrientation(o) ==
    IF o = orientF \/ o = orientR THEN [value |-> orientR, fatal |-> TRUE]
    ELSE IF o = orientFF \/ o = orientRF THEN [value |-> orientF, fatal |-> FALSE]
    ELSE [value |-> orientR, fatal |-> FALSE]

\* orientationBytePair with rf and fr exchanged
OrientationBytePairExchanged(leftRev, rightRev) ==
    IF leftRev
    THEN (IF rightRev THEN orientRR ELSE orientFR)
    ELSE (IF rightRev THEN orientRF ELSE orientFF)

\* orientationBytePair
OrientationBytePair(leftRev, rightRev) ==
    IF leftRev
    THEN (IF rightRev THEN orientRR ELSE orientRF)
    ELSE (IF rightRev THEN orientFR ELSE orientFF)

\* duplicateKey of a pair; Strand plays no part in the orientation
PairKey(leftRefId, leftPos, rightRefId, rightPos, leftRev, rightRev) ==
    [leftRefId |-> leftRefId, leftPos |-> leftPos,
     rightRefId |-> rightRefId, rightPos |-> rightPos,
     Orientation |-> OrientationBytePair(leftRev, rightRev)]

\* duplicateKey of a single read: only left is populated
SingleKey(leftRefId, leftPos, reversed) ==
    [leftRefId |-> leftRefId, leftPos |-> leftPos,
     rightRefId |-> 0, rightPos |-> 0,
     Orientation |-> OrientationByteSingle(reversed)]

InitKey ==
    /\ leftReversed \in BOOLEAN
    /\ rightReversed \in BOOLEAN
    /\ key = NoValue
    /\ single = NoValue /\ leftOr = NoValue /\ rightOr = NoValue /\ fatal = NoValue
    /\ pc = "key"
    /\ CovIdle /\ MergeIdle /\ WorkerIdle /\ FileIdle /\ StringIdle /\ ValidateIdle /\ HistIdle

\* the key of a pair is built
BuildPairKey(leftRefId, leftPos, rightRefId, rightPos) ==
    /\ pc = "key"
    /\ key' = PairKey(leftRefId, leftPos, rightRefId, rightPos, leftReversed, rightReversed)
    /\ pc' = "pair"
    /\ UNCHANGED <<leftReversed, rightReversed, single, leftOr, rightOr, fatal>>
    /\ UNCHANGED <<covVars, mergeVars, workerVars, fileVars, stringVars, validateVars, histVars>>

\* the key of a single read is built
BuildSingleKey(leftRefId, leftPos) ==
    /\ pc = "key"
    /\ key' = SingleKey(leftRefId, leftPos, leftReversed)
    /\ pc' = "single"
    /\ UNCHANGED <<leftReversed, rightReversed, single, leftOr, rightOr, fatal>>
    /\ UNCHANGED <<covVars, mergeVars, workerVars, fileVars, stringVars, validateVars, histVars>>

\* key.isSingle(), and for a pair leftOrientation and rightOrientation of
\* key.Orientation
ReadOrientation ==
    /\ pc \in {"pair", "single"}
    /\ single' = IsSingle(key)
    /\ IF IsSingle(key)
       THEN leftOr' = NoValue /\ rightOr' = NoValue /\ fatal' = FALSE
       ELSE /\ leftOr' = LeftOrientation(key.Orientation).value
            /\ rightOr' = RightOrientation(key.Orientation).value
            /\ fatal' = (LeftOrientation(key.Orientation).fatal
                         \/ RightOrientation(key.Orientation).fatal)
    /\ pc' = (IF pc = "pair" THEN "pairRead" ELSE "singleRead")
    /\ UNCHANGED <<leftReversed, rightReversed, key>>
    /\ UNCHANGED <<covVars, mergeVars, workerVars, fileVars, stringVars, validateVars, histVars>>

NextKey ==
    \/ \E leftRefId \in Refs, rightRefId \in Refs,
          leftPos \in 0 .. MaxRefLen - 1, rightPos \in 0 .. MaxRefLen - 1 :
          BuildPairKey(leftRefId, leftPos, rightRefId, rightPos)
    \/ \E leftRefId \in Refs, leftPos \in 0 .. MaxRefLen - 1 :
          BuildSingleKey(leftRefId, leftPos)
    \/ ReadOrientation

SpecKey == InitKey /\ [][NextKey]_vars

-----------------------------------------------------------------------------
(* C16 *)

\* C16: o = orientationBytePair(leftReversed, rightReversed) is one of ff,
\* fr, rf, rr, so a key carrying o is no single, while isSingle is true
\* exactly for f and r; no other pair of booleans gives the same o;
\* leftOrientation(o) = orientationByteSingle(leftReversed) and
\* rightOrientation(o) = orientationByteSingle(rightReversed).
C16_OrientationRoundTrip ==
    /\ pc \in {"pair", "pairRead"} =>
          /\ key.Orientation \in {orientFF, orientFR, orientRF, orientRR}
          /\ \A l, r \in BOOLEAN :
                OrientationBytePair(l, r) = key.Orientation =>
                    l = leftReversed /\ r = rightReversed
    /\ pc = "pairRead" =>
          /\ single = FALSE
          /\ fatal = FALSE
          /\ leftOr = (IF leftReversed THEN orientR ELSE orientF)
          /\ rightOr = (IF rightReversed THEN orientR ELSE orientF)
    /\ pc = "singleRead" =>
          /\ key.Orientation \in {orientF, orientR}
          /\ single = TRUE
    /\ \A o \in Orientations :
          IsSingle([Orientation |-> o]) = (o \in {orientF, orientR})

\* a pair with the left read reverse and the right read forward, decoded
C16_Witness ==
    /\ pc = "pairRead"
    /\ leftReversed = TRUE /\ rightReversed = FALSE
    /\ key.Orientation = orientRF
    /\ leftOr = orientR /\ rightOr = orientF
    /\ single = FALSE

-----------------------------------------------------------------------------
(* C17 *)

\* the checks that precede the IndexFile default pass
ChecksBeforeDefaultPass(o) ==
    /\ o.BamFile # ""
    /\ o.ShardSize > 0
    /\ 0 <= o.Padding /\ o.Padding < o.ShardSize
    /\ o.MinBases > 0

\* C17: validate changes no option except IndexFile, whether it succeeds or
\* fails; a non-empty IndexFile is never overwritten; an empty IndexFile
\* becomes BamFile + ".bai" exactly when BamFile is non-empty, shardSize > 0,
\* 0 <= padding < shardSize and minBases > 0, so it is set on every
\* successful call.
C17_ValidateFrame ==
    pc = "validated" =>
        /\ DOMAIN opts = DOMAIN optsBefore
        /\ \A field \in DOMAIN optsBefore \ {"IndexFile"} :
              opts[field] = optsBefore[field]
        /\ optsBefore.IndexFile # "" => opts.IndexFile = optsBefore.IndexFile
        /\ optsBefore.IndexFile = "" =>
              opts.IndexFile = (IF ChecksBeforeDefaultPass(optsBefore)
                                THEN optsBefore.BamFile \o ".bai"
                                ELSE "")
        /\ err = NoError => opts.IndexFile # ""

\* a call that failed on a UMI option after it had set the empty IndexFile
C17_Witness ==
    /\ pc = "validated"
    /\ err # NoError
    /\ optsBefore.IndexFile = ""
    /\ opts.IndexFile = "in.bam.bai"
    /\ optsBefore.ScavengeUmis > -1

\* a call that failed before the default and left the empty IndexFile
C17_WitnessUnset ==
    /\ pc = "validated"
    /\ err # NoError
    /\ optsBefore.BamFile # ""
    /\ optsBefore.IndexFile = ""
    /\ opts.IndexFile = ""

====
